---- MODULE Spec2Model ----
\* Conversation context store (ContextStorage / ContextManager) and the
\* Orchestrator's per-message control loop of the multi-agent platform.
EXTENDS Integers, Sequences, FiniteSets, TLC

VARIABLES
  now,      \* wall clock (new Date()), in abstract ticks
  db,       \* table conversation_contexts: context id -> row
  nextId,   \* number of identifiers drawn from randomUUID() so far
  log,      \* history variable: per context id, every turn / entity ever stored
  last,     \* the call that was made last, with its arguments and result
  h,        \* per in-flight handle() call: its position and locals
  nCalls,   \* number of handle() calls started so far
  config,   \* ContextConfig given to the constructor
  budget,   \* how many rows, turns and entities the explored runs may store
  slack     \* SlackMessageHandler: activeThreads, and the threads passed to processMessage

vars == <<now, db, nextId, log, last, h, nCalls, config, budget, slack>>

----------------------------------------------------------------------------
\* Sizes of the explored instance

MaxTime == 2
MaxRows == 2
MaxTurns == 3
MaxEntityAdds == 3
MaxHandles == 2
MixedStores == 1

\* ContextConfig of the store-level specification
HistoryLength == 2
MaxEntitiesPerType == 2
ExpirationMinutes == 1

\* ContextConfig.historyLength of the orchestrator-level specification
HandleHistoryLength == 4

\* ClassifierConfig, in hundredths
ConfidenceThreshold == 50
DirectRouteThreshold == 80

----------------------------------------------------------------------------
\* Values

NoThread == "NULL"
NoRow == 0
\* resolved_id of an extracted entity that is not resolved (the field is absent)
Unresolved == 0
NoAgent == "none"
Null == [null |-> TRUE]

Channels == {"C1"}
Threads == {NoThread, "T1"}
Users == {"U1"}
AgentTypes == {"content", "hubspot", "general"}
Contents == {"m1", "m2"}
EntityTypes == {"contact", "deal", "company", "task"}
EntityIds == 1..(MaxEntitiesPerType + 1)
Procs == {"p1", "p2"}

\* new Date().toISOString() and SQLite's datetime('now'): the instant they denote
IsoTime(t) == t
SqlTime(t) == t

EmptyEntities == [contacts |-> <<>>, deals |-> <<>>, companies |-> <<>>]
\* what the history variable holds for a context that was just created
NewLog(channelId, threadTs) ==
  [channelId |-> channelId, threadTs |-> threadTs, turns |-> <<>>, entities |-> <<>>, completed |-> 0,
   overlapped |-> FALSE, agentCalls |-> 0]

Min(a, b) == IF a < b THEN a ELSE b
Max(a, b) == IF a > b THEN a ELSE b

\* Array.prototype.slice(start) with one argument
Slice(s, start) ==
  LET n == Len(s)
      from == IF start < 0 THEN Max(n + start, 0) ELSE Min(start, n)
  IN  SubSeq(s, from + 1, n)

\* Array.prototype.findIndex on the id, 1-based; 0 stands for -1
FindIndex(list, id) ==
  IF \E i \in 1..Len(list) : list[i].id = id
  THEN CHOOSE i \in 1..Len(list) :
         /\ list[i].id = id
         /\ \A j \in 1..(i - 1) : list[j].id /= id
  ELSE 0

----------------------------------------------------------------------------
\* ContextStorage

\* find: the rows the SELECT matches; .get() yields the first of them, and
\* SQL fixes no order among several
Matches(d, channelId, threadTs) ==
  {i \in DOMAIN d : d[i].slackChannelId = channelId /\ d[i].slackThreadTs = threadTs}

FindResult(d, channelId, threadTs) ==
  IF Matches(d, channelId, threadTs) = {} THEN {NoRow} ELSE Matches(d, channelId, threadTs)

IsExpired(row, t) == row.expiresAt < t

ReuseExistingNoThreadExemption(threadTs, row, t) == ~IsExpired(row, t)

\* getOrCreate: the test that decides whether the row found is returned
ReuseExisting(threadTs, row, t) == threadTs /= NoThread \/ ~IsExpired(row, t)

NewContext(id, channelId, threadTs, userId, t, expirationMinutes) ==
  [id |-> id,
   slackChannelId |-> channelId,
   slackThreadTs |-> threadTs,
   userId |-> IF userId = "undefined" THEN "unknown" ELSE userId,
   activeAgent |-> NoAgent,
   history |-> <<>>,
   entities |-> EmptyEntities,
   lastActivityAt |-> IsoTime(t),
   expiresAt |-> t + expirationMinutes]

TouchActivity(d, id, isThreaded, t, expirationMinutes) ==
  IF id \notin DOMAIN d THEN d
  ELSE IF isThreaded
       THEN [d EXCEPT ![id].lastActivityAt = IsoTime(t)]
       ELSE [d EXCEPT ![id].lastActivityAt = IsoTime(t),
                      ![id].expiresAt = t + expirationMinutes]

\* update: UPDATE ... WHERE id = ?, refreshing activity and expiry
Update(d, context, t, expirationMinutes) ==
  IF context.id \notin DOMAIN d THEN d
  ELSE [d EXCEPT ![context.id] =
          [@ EXCEPT !.activeAgent = context.activeAgent,
                    !.history = context.history,
                    !.entities = context.entities,
                    !.lastActivityAt = IsoTime(t),
                    !.expiresAt = t + expirationMinutes]]

TrimHistoryKeepOldest(history, historyLength) ==
  IF Len(history) > historyLength THEN SubSeq(history, 1, historyLength) ELSE history

TrimHistory(history, historyLength) ==
  IF Len(history) > historyLength THEN Slice(history, 0 - historyLength) ELSE history

AddTurnCreatesMissing(d, contextId, turn, cfg, t) ==
  LET withRow == IF contextId \in DOMAIN d THEN d
                 ELSE (contextId :> NewContext(contextId, "C1", NoThread, "unknown", t,
                                               cfg.expirationMinutes)) @@ d
      context == withRow[contextId]
      pushed == Append(context.history, turn)
  IN  Update(withRow, [context EXCEPT !.history = TrimHistory(pushed, cfg.historyLength)],
             t, cfg.expirationMinutes)

AddTurnFromStaleRead(d, contextId, turn, cfg, t) ==
  IF contextId \notin DOMAIN d THEN d
  ELSE LET context == d[contextId]
           stale == SubSeq(context.history, 1, Len(context.history) - 1)
           pushed == Append(stale, turn)
       IN  Update(d, [context EXCEPT !.history = TrimHistory(pushed, cfg.historyLength)],
                  t, cfg.expirationMinutes)

AddTurn(d, contextId, turn, cfg, t) ==
  IF contextId \notin DOMAIN d THEN d
  ELSE LET context == d[contextId]
           pushed == Append(context.history, turn)
       IN  Update(d, [context EXCEPT !.history = TrimHistory(pushed, cfg.historyLength)],
                  t, cfg.expirationMinutes)

SetActiveAgent(d, contextId, agent, t) ==
  IF contextId \notin DOMAIN d THEN d
  ELSE [d EXCEPT ![contextId].activeAgent = agent,
                 ![contextId].lastActivityAt = SqlTime(t)]

\* `${type}s`: the type with the letter s appended
PluralS(type) ==
  CASE type = "contact" -> "contacts"
    [] type = "deal" -> "deals"
    [] type = "company" -> "companys"
    [] type = "task" -> "tasks"
    [] OTHER -> "undefined"

\* entity.type === 'task' ? 'contacts' : `${entity.type}s`
ListKey(type) == IF type = "task" THEN "contacts" ELSE PluralS(type)

ListKeys == {"contacts", "deals", "companies"}

AddEntityToListNoDedup(entityList, entity, maxEntitiesPerType) ==
  LET pushed == Append(entityList, entity)
  IN  IF Len(pushed) > maxEntitiesPerType THEN Tail(pushed) ELSE pushed

AddEntityToList(entityList, entity, maxEntitiesPerType) ==
  LET existingIndex == FindIndex(entityList, entity.id)
  IN  IF existingIndex > 0
      THEN [entityList EXCEPT ![existingIndex] = entity]
      ELSE LET pushed == Append(entityList, entity)
           IN  IF Len(pushed) > maxEntitiesPerType THEN Tail(pushed) ELSE pushed

AddEntity(d, contextId, entity, cfg, t) ==
  IF contextId \notin DOMAIN d THEN d
  ELSE IF ListKey(entity.type) \notin ListKeys THEN d
  ELSE LET context == d[contextId]
           key == ListKey(entity.type)
           list == AddEntityToList(context.entities[key], entity, cfg.maxEntitiesPerType)
       IN  Update(d, [context EXCEPT !.entities = [@ EXCEPT ![key] = list]],
                  t, cfg.expirationMinutes)

CleanupVictimsAnyThread(d, t) == {i \in DOMAIN d : d[i].expiresAt < t}

\* cleanupExpired: DELETE ... WHERE expires_at < ? AND slack_thread_ts IS NULL
CleanupVictims(d, t) ==
  {i \in DOMAIN d : d[i].expiresAt < t /\ d[i].slackThreadTs = NoThread}

CleanupExpired(d, t) ==
  [db |-> [i \in (DOMAIN d) \ CleanupVictims(d, t) |-> d[i]],
   changes |-> Cardinality(CleanupVictims(d, t))]

\* getOrCreate, given the row `existing` that find() returned (NoRow for null)
\* and the identifier `newId` that randomUUID() would return
GetOrCreateOn(d, existing, channelId, threadTs, userId, newId, t, cfg) ==
  IF existing /= NoRow /\ ReuseExisting(threadTs, d[existing], t)
  THEN [db |-> TouchActivity(d, existing, threadTs /= NoThread, t, cfg.expirationMinutes),
        context |-> d[existing],
        created |-> FALSE]
  ELSE LET context == NewContext(newId, channelId, threadTs, userId, t, cfg.expirationMinutes)
       IN  [db |-> (newId :> context) @@ d,
            context |-> context,
            created |-> TRUE]

\* getById
GetById(d, id) == IF id \in DOMAIN d THEN d[id] ELSE Null

GetRecentEntityByTimestamp(d, contextId, type) ==
  IF contextId \notin DOMAIN d THEN Null
  ELSE IF PluralS(type) \notin ListKeys THEN Null
  ELSE LET entityList == d[contextId].entities[PluralS(type)]
       IN  IF Len(entityList) = 0 THEN Null
           ELSE CHOOSE e \in {entityList[i] : i \in 1..Len(entityList)} :
                  \A i \in 1..Len(entityList) : entityList[i].mentionedAt <= e.mentionedAt

\* getRecentEntity
GetRecentEntity(d, contextId, type) ==
  IF contextId \notin DOMAIN d THEN Null
  ELSE IF PluralS(type) \notin ListKeys THEN Null
  ELSE LET entityList == d[contextId].entities[PluralS(type)]
       IN  IF Len(entityList) = 0 THEN Null ELSE entityList[Len(entityList)]

----------------------------------------------------------------------------
\* History variable

RECURSIVE SumLen(_, _, _)
SumLen(l, ids, field) ==
  IF ids = {} THEN 0
  ELSE LET i == CHOOSE x \in ids : TRUE
       IN  Len(l[i][field]) + SumLen(l, ids \ {i}, field)

TurnsStored == SumLen(log, DOMAIN log, "turns")
EntitiesStored == SumLen(log, DOMAIN log, "entities")

LogTurn(l, d, contextId, turn) ==
  IF contextId \in DOMAIN d THEN [l EXCEPT ![contextId].turns = Append(@, turn)] ELSE l

LogEntity(l, d, contextId, entity) ==
  IF contextId \in DOMAIN d THEN [l EXCEPT ![contextId].entities = Append(@, entity)] ELSE l

----------------------------------------------------------------------------
\* ContextManager, called directly (the unit tests' use of it)

UserTurn(content, t) ==
  [role |-> "user", content |-> content, timestamp |-> t, agent |-> "undefined"]

AssistantTurn(content, t, agent) ==
  [role |-> "assistant", content |-> content, timestamp |-> t, agent |-> agent]

Idle == [pc |-> "idle"]

StoreConfig ==
  [historyLength |-> HistoryLength,
   expirationMinutes |-> ExpirationMinutes,
   maxEntitiesPerType |-> MaxEntitiesPerType]

HandleConfig ==
  [historyLength |-> HandleHistoryLength,
   expirationMinutes |-> ExpirationMinutes,
   maxEntitiesPerType |-> MaxEntitiesPerType]

InitWith(cfg, bud) ==
  /\ now = 0
  /\ db = <<>>
  /\ nextId = 0
  /\ log = <<>>
  /\ last = [op |-> "init"]
  /\ h = [p \in Procs |-> Idle]
  /\ nCalls = 0
  /\ config = cfg
  /\ budget = bud
  /\ slack = [activeThreads |-> {}, processing |-> {}]

Init ==
  InitWith(StoreConfig, [rows |-> MaxRows, turns |-> MixedStores, entities |-> MixedStores,
                         total |-> MixedStores])

Tick ==
  /\ now < MaxTime
  /\ now' = now + 1
  /\ last' = [op |-> "tick"]
  /\ UNCHANGED <<db, nextId, log, h, nCalls, config, budget, slack>>

GetContext(channelId, threadTs, userId) ==
  \E existing \in FindResult(db, channelId, threadTs) :
    LET r == GetOrCreateOn(db, existing, channelId, threadTs, userId, nextId + 1, now, config)
    IN  /\ r.created => nextId < budget.rows
        /\ db' = r.db
        /\ nextId' = IF r.created THEN nextId + 1 ELSE nextId
        /\ log' = IF r.created THEN (r.context.id :> NewLog(channelId, threadTs)) @@ log ELSE log
        /\ last' = [op |-> "getContext", found |-> existing, result |-> r.context.id]
        /\ UNCHANGED <<now, h, nCalls, config, budget, slack>>

AddMessage(contextId, turn) ==
  /\ contextId \in DOMAIN db => (TurnsStored < budget.turns /\ TurnsStored + EntitiesStored < budget.total)
  /\ db' = AddTurn(db, contextId, turn, config, now)
  /\ log' = LogTurn(log, db, contextId, turn)
  /\ last' = [op |-> "addTurn", contextId |-> contextId]
  /\ UNCHANGED <<now, nextId, h, nCalls, config, budget, slack>>

AddUserMessage(contextId, content) == AddMessage(contextId, UserTurn(content, now))

AddAssistantMessage(contextId, content, agent) ==
  AddMessage(contextId, AssistantTurn(content, now, agent))

SetActiveAgentCall(contextId, agent) ==
  /\ db' = SetActiveAgent(db, contextId, agent, now)
  /\ last' = [op |-> "setActiveAgent", contextId |-> contextId]
  /\ UNCHANGED <<now, nextId, log, h, nCalls, config, budget, slack>>

AddEntityReference(contextId, entity) ==
  /\ contextId \in DOMAIN db => (EntitiesStored < budget.entities /\ TurnsStored + EntitiesStored < budget.total)
  /\ db' = AddEntity(db, contextId, entity, config, now)
  /\ log' = LogEntity(log, db, contextId, entity)
  /\ last' = [op |-> "addEntity", contextId |-> contextId, entity |-> entity]
  /\ UNCHANGED <<now, nextId, h, nCalls, config, budget, slack>>

Cleanup ==
  /\ db' = CleanupExpired(db, now).db
  /\ last' = [op |-> "cleanup", result |-> CleanupExpired(db, now).changes]
  /\ UNCHANGED <<now, nextId, log, h, nCalls, config, budget, slack>>

\* EntityRef values a caller passes; mentionedAt is the caller's new Date(),
\* which differs from one call to the next
EntityRefs(types, ids) ==
  [type : types, id : ids, name : {"n"}, mentionedAt : {EntitiesStored + 1}]

\* context identifiers a caller may pass: those drawn so far and one never drawn
CallIds == 1..(nextId + 1)

Next ==
  \/ Tick
  \/ \E c \in Channels, th \in Threads, u \in Users : GetContext(c, th, u)
  \/ \E id \in CallIds : AddUserMessage(id, "m1")
  \/ \E id \in CallIds : SetActiveAgentCall(id, "hubspot")
  \/ \E id \in CallIds, e \in EntityRefs({"contact"}, {1}) :
       AddEntityReference(id, e)
  \/ Cleanup

Spec == Init /\ [][Next]_vars

\* addTurn sequences on one conversation
InitHistory ==
  InitWith(StoreConfig, [rows |-> 1, turns |-> MaxTurns, entities |-> 0, total |-> MaxTurns])

NextHistory ==
  \/ Tick
  \/ \E c \in Channels, th \in Threads, u \in Users : GetContext(c, th, u)
  \/ \E id \in CallIds, m \in Contents : AddUserMessage(id, m)
  \/ \E id \in CallIds, a \in {"content", "undefined"} : AddAssistantMessage(id, "r1", a)
  \/ Cleanup

SpecHistory == InitHistory /\ [][NextHistory]_vars

\* addEntity sequences on one conversation
InitEntities ==
  InitWith(StoreConfig, [rows |-> 1, turns |-> 0, entities |-> MaxEntityAdds, total |-> MaxEntityAdds])

NextEntities ==
  \/ \E c \in Channels, th \in Threads, u \in Users : GetContext(c, th, u)
  \/ \E id \in 1..nextId, e \in EntityRefs(EntityTypes, EntityIds) :
       AddEntityReference(id, e)

SpecEntities == InitEntities /\ [][NextEntities]_vars

----------------------------------------------------------------------------
\* Properties of the context store

LastN(s, n) == SubSeq(s, Max(Len(s) - n, 0) + 1, Len(s))

DistinctIds(list) ==
  \A i, j \in 1..Len(list) : list[i].id = list[j].id => i = j

\* The list that holds the entities of a kind
ListOfKind(kind) ==
  CASE kind = "contact" -> "contacts"
    [] kind = "deal" -> "deals"
    [] kind = "company" -> "companies"

C2_ListsBoundedDistinct ==
  \A id \in DOMAIN db, key \in ListKeys :
    /\ Len(db[id].entities[key]) <= config.maxEntitiesPerType
    /\ DistinctIds(db[id].entities[key])

C2_ReAddReplacesInPlace ==
  LET id == last'.contextId
      e == last'.entity
  IN  (/\ last'.op = "addEntity"
       /\ id \in DOMAIN db
       /\ ListKey(e.type) \in ListKeys
       /\ \E i \in 1..Len(db[id].entities[ListKey(e.type)]) :
            db[id].entities[ListKey(e.type)][i].id = e.id)
      => LET old == db[id].entities[ListKey(e.type)]
             new == db'[id].entities[ListKey(e.type)]
         IN  /\ Len(new) = Len(old)
             /\ \A i \in 1..Len(old) :
                  new[i] = IF old[i].id = e.id THEN e ELSE old[i]

\* C2: a list of one kind never holds more than maxEntitiesPerType entries
\* nor two entries with the same identifier, and adding an entity whose
\* identifier is already in the list replaces that entry in place without
\* changing the length.
C2_EntityListBoundedAndDeduplicated ==
  []C2_ListsBoundedDistinct /\ [][C2_ReAddReplacesInPlace]_vars

C2_Witness ==
  \E id \in DOMAIN db :
    /\ Len(db[id].entities.contacts) = config.maxEntitiesPerType
    /\ Len(log[id].entities) > config.maxEntitiesPerType
    /\ \E i \in 1..Len(db[id].entities.contacts) :
         /\ db[id].entities.contacts[i] = log[id].entities[Len(log[id].entities)]
         /\ i < Len(db[id].entities.contacts)

\* C3: after maxEntitiesPerType + 1 sequential addEntity calls with distinct
\* identifiers of one kind, the list of that kind holds the entities of the
\* calls 2..cap+1 in order (the one added first was evicted).
C3_OldestEvictedAfterCapPlusOne ==
  \A id \in DOMAIN db, kind \in {"contact", "deal", "company"} :
    (/\ Len(log[id].entities) = config.maxEntitiesPerType + 1
     /\ \A i \in 1..Len(log[id].entities) : log[id].entities[i].type = kind
     /\ DistinctIds(log[id].entities))
    => db[id].entities[ListOfKind(kind)] = Tail(log[id].entities)

C5_CleanupRemovesEveryExpiredContext ==
  last.op = "cleanup" => \A i \in DOMAIN db : ~(db[i].expiresAt < now)

\* C6: there is at most one context row for each (channel, thread-or-absence)
\* pair.
C6_OneRowPerPair ==
  \A i, j \in DOMAIN db :
    (db[i].slackChannelId = db[j].slackChannelId /\ db[i].slackThreadTs = db[j].slackThreadTs)
    => i = j

\* C7: getOrCreate with a thread identifier for which a row exists returns
\* that row, history and entities kept, even when its expiry is in the past;
\* a lookup without a thread identifier returns the row found when it is
\* unexpired and creates a new row when it is expired.
C7_ThreadedLookupIgnoresExpiry ==
  [][\A c \in Channels, th \in Threads, u \in Users :
      GetContext(c, th, u) =>
        /\ (th /= NoThread /\ Matches(db, c, th) /= {}) =>
             /\ last'.result \in Matches(db, c, th)
             /\ DOMAIN db' = DOMAIN db
             /\ db'[last'.result].history = db[last'.result].history
             /\ db'[last'.result].entities = db[last'.result].entities
        /\ (th = NoThread /\ last'.found /= NoRow) =>
             IF db[last'.found].expiresAt < now
             THEN last'.result \notin DOMAIN db /\ db'[last'.result].history = <<>>
             ELSE last'.result = last'.found /\ DOMAIN db' = DOMAIN db]_vars

C7_Witness ==
  /\ last.op = "getContext"
  /\ last.found /= NoRow
  /\ last.result = last.found
  /\ last.result \in DOMAIN db
  /\ db[last.result].slackThreadTs /= NoThread
  /\ db[last.result].expiresAt < now
  /\ Len(db[last.result].history) > 0

----------------------------------------------------------------------------
\* IntentClassifier

\* Facts about a message text: whether some pattern of quickClassify's
\* contentPatterns, hubspotPatterns, generalPatterns matches the lower-cased,
\* trimmed text, whether message.length < 50, and whether the text includes
\* one of isFollowUp's indicators
Message(text, content, hubspot, general, short, indicator) ==
  [text |-> text, content |-> content, hubspot |-> hubspot, general |-> general,
   short |-> short, indicator |-> indicator]

Messages ==
  {Message("show my deals", FALSE, TRUE, FALSE, TRUE, FALSE),
   Message("and what about him", FALSE, FALSE, FALSE, TRUE, TRUE),
   Message("quarterly summary", FALSE, FALSE, FALSE, TRUE, FALSE)}

\* Texts that several pattern groups match, or that are long
MoreMessages ==
  {Message("hello, pipeline summary", FALSE, TRUE, TRUE, TRUE, TRUE),
   Message("create a post about maria as a contact", TRUE, TRUE, FALSE, TRUE, FALSE),
   Message("what can you do about topics", TRUE, FALSE, TRUE, TRUE, FALSE),
   Message("please also look into the renewal numbers for the northern region",
           FALSE, FALSE, FALSE, FALSE, TRUE),
   Message("summarize last quarter's revenue for our executive board",
           FALSE, FALSE, FALSE, FALSE, FALSE)}

QuickConfidence == 95
FollowUpConfidence == 85
FallbackConfidence == 30
DefaultConfidence == 50

Result(agent, confidence, entities, source) ==
  [agent |-> agent, confidence |-> confidence, entities |-> entities, source |-> source]

QuickClassifyGeneralFirst(message) ==
  IF message.general THEN Result("general", QuickConfidence, <<>>, "quick")
  ELSE IF message.hubspot THEN Result("hubspot", QuickConfidence, <<>>, "quick")
  ELSE IF message.content THEN Result("content", QuickConfidence, <<>>, "quick")
  ELSE Null

\* quickClassify: the pattern groups are tried in the order content, hubspot,
\* general; Null when no pattern matches
QuickClassify(message) ==
  IF message.content THEN Result("content", QuickConfidence, <<>>, "quick")
  ELSE IF message.hubspot THEN Result("hubspot", QuickConfidence, <<>>, "quick")
  ELSE IF message.general THEN Result("general", QuickConfidence, <<>>, "quick")
  ELSE Null

ValidateAgentWithLinear(agent) ==
  IF agent \in {"content", "hubspot", "linear", "general"} THEN agent ELSE "general"

\* validateAgent
ValidateAgent(agent) == IF agent \in {"content", "hubspot", "general"} THEN agent ELSE "general"

\* validateEntities: keeps the entries with a truthy type and a truthy value
ValidateEntities(entities) ==
  SelectSeq(entities, LAMBDA e : e.type /= "" /\ e.value /= "")

FallbackResult == Result("general", FallbackConfidence, <<>>, "fallback")

ClassifyDefaultOnFailure(reply) ==
  IF reply.kind = "json"
  THEN Result(ValidateAgent(reply.agent),
              IF reply.confidence \in Int THEN reply.confidence ELSE DefaultConfidence,
              ValidateEntities(reply.entities), "llm")
  ELSE Result("general", DefaultConfidence, <<>>, "fallback")

\* classify, given what llm.chat did: it threw ("throws"), it returned text
\* without a brace-delimited object ("text"), it returned braces that
\* JSON.parse rejects ("badjson"), or it returned an object ("json")
Classify(reply) ==
  IF reply.kind = "json"
  THEN Result(ValidateAgent(reply.agent),
              IF reply.confidence \in Int THEN reply.confidence ELSE DefaultConfidence,
              ValidateEntities(reply.entities), "llm")
  ELSE FallbackResult

ShouldRouteDirectly(result) == result.confidence >= DirectRouteThreshold

NeedsClarificationInclusive(result) == result.confidence <= ConfidenceThreshold

NeedsClarification(result) == result.confidence < ConfidenceThreshold

----------------------------------------------------------------------------
\* ContextManager.resolvePronoun

ResolvePronoun(d, contextId, pronoun) ==
  IF contextId \notin DOMAIN d THEN Null
  ELSE IF pronoun \in {"they", "them", "their"}
            /\ GetRecentEntity(d, contextId, "contact") /= Null
       THEN GetRecentEntity(d, contextId, "contact")
  ELSE IF pronoun \in {"they", "them", "their"}
            /\ GetRecentEntity(d, contextId, "company") /= Null
       THEN GetRecentEntity(d, contextId, "company")
  ELSE IF pronoun \in {"he", "him", "his", "she", "her", "hers"}
       THEN GetRecentEntity(d, contextId, "contact")
  ELSE IF pronoun \in {"it", "its"}
       THEN IF GetRecentEntity(d, contextId, "deal") /= Null
            THEN GetRecentEntity(d, contextId, "deal")
            ELSE GetRecentEntity(d, contextId, "company")
  ELSE Null

----------------------------------------------------------------------------
\* Orchestrator

\* isFollowUp
IsFollowUp(message) == message.short /\ message.indicator

\* classifyWithContext, given the reply llm.chat would give if it were asked
ClassifyWithContext(message, context, reply) ==
  IF QuickClassify(message) /= Null THEN QuickClassify(message)
  ELSE IF context.activeAgent /= NoAgent /\ IsFollowUp(message)
       THEN Result(context.activeAgent, FollowUpConfidence, <<>>, "followup")
  ELSE Classify(reply)

ResolverPronouns == {"he", "she", "him", "her", "they", "them", "it", "this", "that"}

ResolveEntity(d, contextId, entity) ==
  IF entity.resolved_id /= Unresolved THEN entity
  ELSE IF entity.value \in ResolverPronouns
            /\ ResolvePronoun(d, contextId, entity.value) /= Null
       THEN [entity EXCEPT !.resolved_id = ResolvePronoun(d, contextId, entity.value).id,
                           !.resolved_name = ResolvePronoun(d, contextId, entity.value).name]
  ELSE entity

\* resolveEntities
ResolveEntities(d, contextId, entities) ==
  [i \in 1..Len(entities) |-> ResolveEntity(d, contextId, entities[i])]

\* buildClarificationResponse: the suggestions, in the order pushed
Suggestions(classification) ==
  (IF classification.agent = "content" \/ classification.confidence > 30
   THEN <<"Create or edit content (LinkedIn posts, articles)">> ELSE <<>>)
  \o (IF classification.agent = "hubspot" \/ classification.confidence > 30
      THEN <<"Manage CRM (contacts, deals, tasks)">> ELSE <<>>)
  \o <<"Something else">>

\* the message text that numbers and joins the suggestions
RenderSuggestions(suggestions) ==
  CASE suggestions = <<"Create or edit content (LinkedIn posts, articles)",
                       "Manage CRM (contacts, deals, tasks)", "Something else">> ->
         "Are you looking to: 1. Create or edit content 2. Manage CRM 3. Something else"
    [] suggestions = <<"Create or edit content (LinkedIn posts, articles)", "Something else">> ->
         "Are you looking to: 1. Create or edit content 2. Something else"
    [] suggestions = <<"Manage CRM (contacts, deals, tasks)", "Something else">> ->
         "Are you looking to: 1. Manage CRM 2. Something else"
    [] suggestions = <<"Something else">> ->
         "Are you looking to: 1. Something else"
    [] OTHER -> "Are you looking to:"

\* buildClarificationResponse: the message, which lists the suggestions
ClarificationMessage(classification) == RenderSuggestions(Suggestions(classification))

\* String.prototype.includes on an exception text, which is held as the
\* sequence of its words
Includes(message, pattern) == \E i \in 1..Len(message) : message[i] = pattern

GetUserFriendlyErrorRaw(error) ==
  IF error.kind = "AgentError" THEN error.userMessage ELSE error.message[1]

\* getUserFriendlyError: `error` is an AgentErrorClass, another Error, or a
\* thrown value that is no Error
GetUserFriendlyError(error) ==
  IF error.kind = "AgentError" THEN error.userMessage
  ELSE IF error.kind = "Error"
            /\ (Includes(error.message, "ECONNREFUSED") \/ Includes(error.message, "ETIMEDOUT"))
       THEN "Couldn't connect to the service - try again in a minute?"
  ELSE IF error.kind = "Error"
            /\ (Includes(error.message, "401") \/ Includes(error.message, "Unauthorized"))
       THEN "Authentication failed - credentials may need updating."
  ELSE IF error.kind = "Error"
            /\ (Includes(error.message, "429") \/ Includes(error.message, "Too Many Requests"))
       THEN "Too many requests - please wait a moment."
  ELSE IF error.kind = "Error" /\ Includes(error.message, "API key")
       THEN "API key is missing or invalid - please check configuration."
  ELSE "Something went wrong - please try again."

\* routeToAgent: the collaborator the switch selects
RouteTarget(agent) ==
  CASE agent = "content" -> "contentAgent"
    [] agent = "hubspot" -> "hubspotAgent"
    [] agent = "linear" -> "linearAgent"
    [] OTHER -> "handleGeneralQuery"

RECURSIVE AddEntities(_, _, _, _, _)
\* for (const entity of response.entities) addEntityReference(context.id, entity)
AddEntities(d, contextId, entities, cfg, t) ==
  IF entities = <<>> THEN d
  ELSE AddEntities(AddEntity(d, contextId, Head(entities), cfg, t),
                   contextId, Tail(entities), cfg, t)

RECURSIVE LogEntities(_, _, _, _)
LogEntities(l, d, contextId, entities) ==
  IF entities = <<>> THEN l
  ELSE LogEntities(LogEntity(l, d, contextId, Head(entities)), d, contextId, Tail(entities))

RecordResponseWithoutTurn(d, contextId, response, agent, cfg, t) ==
  AddEntities(SetActiveAgent(d, contextId, agent, t), contextId, response.entities, cfg, t)

\* handle, after routeToAgent returned `response`: the context updates
RecordResponse(d, contextId, response, agent, cfg, t) ==
  AddEntities(
    SetActiveAgent(
      AddTurn(d, contextId, AssistantTurn(response.message, t, agent), cfg, t),
      contextId, agent, t),
    contextId, response.entities, cfg, t)

RecordClarificationAsGeneral(d, contextId, message, cfg, t) ==
  SetActiveAgent(AddTurn(d, contextId, AssistantTurn(message, t, "general"), cfg, t),
                 contextId, "general", t)

\* handle(): addAssistantMessage(context.id, response.message) on the
\* clarification branch
RecordClarification(d, contextId, message, cfg, t) ==
  AddTurn(d, contextId, AssistantTurn(message, t, "undefined"), cfg, t)

\* handle's catch block: the apology is added as an assistant turn
RecordError(d, contextId, errorMessage, cfg, t) ==
  AddTurn(d, contextId, AssistantTurn(errorMessage, t, "undefined"), cfg, t)

\* What the text-generation call made by classify() may do
LlmReplies ==
  {[kind |-> "throws"],
   [kind |-> "text"],
   [kind |-> "json", agent |-> "hubspot", confidence |-> 49, entities |-> <<>>],
   [kind |-> "json", agent |-> "linear", confidence |-> 50, entities |-> <<>>],
   [kind |-> "json", agent |-> "hubspot", confidence |-> 50,
    entities |-> <<[type |-> "contact", value |-> "her", resolved_id |-> Unresolved, resolved_name |-> "undefined"]>>]}

\* What the capability collaborator may do: return a response or throw
AgentReplies ==
  [kind : {"ok"}, message : {"r1"},
   entities : {<<>>, <<[type |-> "contact", id |-> 1, name |-> "n", mentionedAt |-> now]>>}]
  \cup {[kind |-> "throws",
         error |-> [kind |-> "Error", message |-> <<"connect", "ETIMEDOUT">>]],
        [kind |-> "throws", error |-> [kind |-> "Error", message |-> <<"boom">>]]}

\* The slot a new call takes: concurrent calls are interchangeable, so the
\* first idle slot is used
FreeSlot == IF h["p1"].pc = "idle" THEN "p1" ELSE "p2"

InFlightOn(contextId) == {q \in Procs : h[q].pc /= "idle" /\ h[q].contextId = contextId}

\* the calls in flight for a (channel, thread) pair
InFlightOnPair(channelId, threadTs) ==
  {q \in Procs : h[q].pc /= "idle" /\ h[q].channelId = channelId /\ h[q].threadTs = threadTs}

\* handle(): getContext and addUserMessage, up to the first await
HandleStart(p, message, channelId, threadTs, userId) ==
  /\ h[p].pc = "idle"
  /\ p = FreeSlot
  /\ nCalls < MaxHandles
  /\ \E existing \in FindResult(db, channelId, threadTs) :
       LET r == GetOrCreateOn(db, existing, channelId, threadTs, userId, nextId + 1, now, config)
           id == r.context.id
           turn == UserTurn(message.text, now)
           log1 == IF r.created THEN (id :> NewLog(channelId, threadTs)) @@ log ELSE log
           others == InFlightOnPair(channelId, threadTs)
       IN  /\ r.created => nextId < budget.rows
           /\ nextId' = IF r.created THEN nextId + 1 ELSE nextId
           /\ db' = AddTurn(r.db, id, turn, config, now)
           /\ log' = [LogTurn(log1, r.db, id, turn) EXCEPT
                        ![id].overlapped = @ \/ others /= {}]
           /\ h' = [q \in Procs |->
                      IF q = p
                      THEN [pc |-> "classify", message |-> message, contextId |-> id,
                            channelId |-> channelId, threadTs |-> threadTs, activeAgent |-> r.context.activeAgent,
                            turns0 |-> Len(log1[id].turns), overlap |-> others /= {}]
                      ELSE IF q \in others THEN [h[q] EXCEPT !.overlap = TRUE]
                      ELSE h[q]]
  /\ nCalls' = nCalls + 1
  /\ last' = [op |-> "handleStart"]
  /\ UNCHANGED <<now, config, budget, slack>>

\* the number of text-generation requests classifyWithContext made to get
\* `classification`: classify() makes one, the quick pass and the follow-up
\* bias make none
LlmRequests(classification) ==
  IF classification.source \in {"llm", "fallback"} THEN 1 ELSE 0

\* what llm.chat did for the call: "none" when it was not asked
LlmOutcome(classification, reply) ==
  IF LlmRequests(classification) = 1 THEN reply.kind ELSE "none"

\* what a completed call returned, and what it was working on
Completed(p, outcome, message, classification) ==
  [op |-> "handle", outcome |-> outcome, message |-> message,
   agent |-> classification.agent, confidence |-> classification.confidence,
   llmRequests |-> LlmRequests(classification),
   contextId |-> h[p].contextId, channelId |-> h[p].channelId, threadTs |-> h[p].threadTs,
   turns0 |-> h[p].turns0, overlap |-> h[p].overlap]

LogCompleted(l, contextId) == [l EXCEPT ![contextId].completed = @ + 1]

\* routeToAgent invoked a collaborator for a call on the context
LogAgentCall(l, contextId) == [l EXCEPT ![contextId].agentCalls = @ + 1]

\* handle(): classification, the confidence gate, entity resolution
HandleClassify(p, reply) ==
  /\ h[p].pc = "classify"
  /\ LET c == ClassifyWithContext(h[p].message, [activeAgent |-> h[p].activeAgent], reply)
           id == h[p].contextId
       IN  IF NeedsClarification(c)
           THEN LET turn == AssistantTurn(ClarificationMessage(c), now, "undefined")
                IN  /\ db' = RecordClarification(db, id, ClarificationMessage(c), config, now)
                    /\ log' = LogCompleted(LogTurn(log, db, id, turn), id)
                    /\ h' = [h EXCEPT ![p] = Idle]
                    /\ last' = Completed(p, "clarified", ClarificationMessage(c), c)
                                 @@ [llm |-> LlmOutcome(c, reply), entities |-> c.entities,
                                     userMessage |-> h[p].message,
                                     suggestions |-> Suggestions(c),
                                     activeAgent |-> h[p].activeAgent]
           ELSE /\ h' = [h EXCEPT ![p] =
                           [pc |-> "dispatch", message |-> h[p].message, contextId |-> id,
                            channelId |-> h[p].channelId, threadTs |-> h[p].threadTs,
                            activeAgent |-> h[p].activeAgent,
                            turns0 |-> h[p].turns0, overlap |-> h[p].overlap,
                            classification |-> c,
                            llmRequests |-> LlmRequests(c),
                            llm |-> LlmOutcome(c, reply),
                            target |-> RouteTarget(c.agent),
                            entities |-> ResolveEntities(db, id, c.entities)]]
                /\ last' = [op |-> "classified", p |-> p, confidence |-> c.confidence,
                             llm |-> LlmOutcome(c, reply)]
                /\ UNCHANGED <<db, log>>
  /\ UNCHANGED <<now, nextId, nCalls, config, budget, slack>>

HandleDispatchRetrying(p, reply) ==
  /\ h[p].pc = "dispatch"
  /\ reply.kind = "throws"
  /\ log' = LogAgentCall(log, h[p].contextId)
  /\ last' = [op |-> "retry"]
  /\ UNCHANGED <<now, db, nextId, h, nCalls, config, budget, slack>>

\* handle(): the collaborator's answer, the context updates, the catch block
HandleDispatch(p, reply) ==
  /\ h[p].pc = "dispatch"
  /\ LET id == h[p].contextId
           agent == h[p].classification.agent
       IN  IF reply.kind = "ok"
           THEN LET turn == AssistantTurn(reply.message, now, agent)
                IN  /\ db' = RecordResponse(db, id, reply, agent, config, now)
                    /\ log' = LogCompleted(
                                 LogEntities(LogTurn(LogAgentCall(log, id), db, id, turn),
                                             db, id, reply.entities),
                                 id)
                    /\ last' = Completed(p, "dispatched", reply.message, h[p].classification)
                                 @@ [llm |-> h[p].llm, entities |-> reply.entities]
           ELSE LET errorMessage == GetUserFriendlyError(reply.error)
                    turn == AssistantTurn(errorMessage, now, "undefined")
                IN  /\ db' = RecordError(db, id, errorMessage, config, now)
                    /\ log' = LogCompleted(
                                 IF db' = db THEN LogAgentCall(log, id)
                                 ELSE LogTurn(LogAgentCall(log, id), db, id, turn), id)
                    /\ last' = Completed(p, "errored", errorMessage, h[p].classification)
                                 @@ [llm |-> h[p].llm, error |-> reply.error,
                                     userMessage |-> h[p].message]
  /\ h' = [h EXCEPT ![p] = Idle]
  /\ UNCHANGED <<now, nextId, nCalls, config, budget, slack>>

InitHandle ==
  InitWith(HandleConfig, [rows |-> MaxRows, turns |-> 0, entities |-> 0, total |-> 0])

NextHandle ==
  \/ Tick
  \/ Cleanup
  \/ \E p \in Procs, m \in Messages, c \in Channels, th \in Threads, u \in Users :
       HandleStart(p, m, c, th, u)
  \/ \E p \in Procs, reply \in LlmReplies : HandleClassify(p, reply)
  \/ \E p \in Procs, reply \in AgentReplies : HandleDispatch(p, reply)

SpecHandle == InitHandle /\ [][NextHandle]_vars

----------------------------------------------------------------------------
\* Properties of handle()

Roles(turns) == [i \in 1..Len(turns) |-> turns[i].role]

\* the contexts ever created for a (channel, thread) pair
ContextsOfPair(channelId, threadTs) ==
  {id \in DOMAIN log : log[id].channelId = channelId /\ log[id].threadTs = threadTs}

RECURSIVE CompletedOn(_)
CompletedOn(ids) ==
  IF ids = {} THEN 0
  ELSE LET i == CHOOSE x \in ids : TRUE
       IN  log[i].completed + CompletedOn(ids \ {i})

\* exactly two calls were made on the pair, one after the other, and both
\* have returned
TwoSequentialCallsDone(channelId, threadTs) ==
  /\ CompletedOn(ContextsOfPair(channelId, threadTs)) = 2
  /\ InFlightOnPair(channelId, threadTs) = {}
  /\ \A id \in ContextsOfPair(channelId, threadTs) : ~log[id].overlapped

\* a context of the pair holds exactly the turns user, assistant, user, assistant
PairHasFourTurns(channelId, threadTs) ==
  \E id \in DOMAIN db :
    /\ db[id].slackChannelId = channelId
    /\ db[id].slackThreadTs = threadTs
    /\ Roles(db[id].history) = <<"user", "assistant", "user", "assistant">>

\* the call that returned last added, to the context it looked up, its user
\* turn and then one assistant turn holding the message it returned
LastCallAppendedUserThenAssistant ==
  LET turns == log[last.contextId].turns
  IN  /\ Len(turns) = last.turns0 + 2
      /\ turns[last.turns0 + 1].role = "user"
      /\ turns[last.turns0 + 2].role = "assistant"
      /\ turns[last.turns0 + 2].content = last.message

\* C8 as stated, for every (channel, thread) pair, the thread identifier
\* absent or present: two sequential handle() calls on the pair leave a
\* context with exactly the 4 turns user, assistant, user, assistant, and every
\* completed handle() appends one user turn and then one assistant turn to
\* the context it looked up.
C8_AnyPairTwoCallsFourTurns ==
  /\ \A c \in Channels, th \in Threads :
       TwoSequentialCallsDone(c, th) => PairHasFourTurns(c, th)
  /\ (last.op = "handle" /\ ~last.overlap) =>
       /\ last.contextId \in DOMAIN db
       /\ LastCallAppendedUserThenAssistant

\* C8: for a pair with a thread identifier, two sequential handle() calls
\* (history cap at least 4) leave the pair's context with exactly the 4 turns
\* user, assistant, user, assistant; every handle() call on such a context
\* appends exactly one user turn when it starts and exactly one assistant turn
\* when it completes, the assistant turn directly after the user turn when no
\* other call on the pair overlaps it, and the stored history is the tail of
\* the turns appended.
C8_ThreadedCallsAppendUserThenAssistant ==
  /\ \A c \in Channels, th \in Threads \ {NoThread} :
       TwoSequentialCallsDone(c, th) => PairHasFourTurns(c, th)
  /\ (last.op = "handle" /\ last.threadTs /= NoThread /\ ~last.overlap) =>
       LastCallAppendedUserThenAssistant
  /\ \A id \in DOMAIN log :
       log[id].threadTs /= NoThread =>
         /\ id \in DOMAIN db
         /\ Len(log[id].turns) = 2 * log[id].completed + Cardinality(InFlightOn(id))
         /\ Len(SelectSeq(log[id].turns, LAMBDA t : t.role = "assistant")) = log[id].completed
         /\ db[id].history = LastN(log[id].turns, config.historyLength)

C8_Witness ==
  /\ last.op = "handle"
  /\ last.threadTs /= NoThread
  /\ TwoSequentialCallsDone(last.channelId, last.threadTs)
  /\ PairHasFourTurns(last.channelId, last.threadTs)
  /\ Len(db[last.contextId].history) = 4

\* C9: needsClarification is true exactly when the confidence is below the
\* clarification threshold and shouldRouteDirectly exactly when it is at or
\* above the direct-route threshold; handle() answers with the clarification
\* response exactly when the confidence is below the clarification threshold
\* and goes on to dispatch in every other case, the confidences between the two
\* thresholds included.
C9_ClarifyExactlyBelowThreshold ==
  /\ \A c \in 0..100 :
       /\ NeedsClarification([confidence |-> c]) <=> c < ConfidenceThreshold
       /\ ShouldRouteDirectly([confidence |-> c]) <=> c >= DirectRouteThreshold
  /\ (last.op = "handle" /\ last.outcome = "clarified") =>
       /\ last.confidence < ConfidenceThreshold
       /\ last.message = ClarificationMessage([agent |-> last.agent,
                                               confidence |-> last.confidence])
  /\ last.op = "classified" =>
       /\ last.confidence >= ConfidenceThreshold
       /\ h[last.p].pc = "dispatch"
       /\ h[last.p].target = RouteTarget(h[last.p].classification.agent)
  /\ (last.op = "handle" /\ last.outcome \in {"dispatched", "errored"}) =>
       last.confidence >= ConfidenceThreshold
  /\ \A p \in Procs :
       h[p].pc = "dispatch" => h[p].classification.confidence >= ConfidenceThreshold

C9_Witness ==
  /\ last.op = "handle"
  /\ last.outcome = "dispatched"
  /\ last.confidence >= ConfidenceThreshold
  /\ last.confidence < DirectRouteThreshold

\* C10: when the collaborator throws after the user turn has been recorded,
\* handle() returns a response object and the message it returns is recorded as
\* an assistant turn of the context the call looked up.
C10_ErrorMessageRecorded ==
  (last.op = "handle" /\ last.outcome = "errored") =>
    /\ last.contextId \in DOMAIN db
    /\ Len(db[last.contextId].history) > 0
    /\ LET turn == db[last.contextId].history[Len(db[last.contextId].history)]
       IN  turn.role = "assistant" /\ turn.content = last.message

----------------------------------------------------------------------------
\* Orchestrator.getContext: contextManager.getContext (getOrCreate, with no
\* user id) and then getFullContext (getById) on the identifier it returned
OrchGetContext(channelId, threadTs) ==
  \E existing \in FindResult(db, channelId, threadTs) :
    LET r == GetOrCreateOn(db, existing, channelId, threadTs, "unknown", nextId + 1, now, config)
    IN  /\ r.created => nextId < budget.rows
        /\ db' = r.db
        /\ nextId' = IF r.created THEN nextId + 1 ELSE nextId
        /\ log' = IF r.created THEN (r.context.id :> NewLog(channelId, threadTs)) @@ log ELSE log
        /\ last' = [op |-> "orchGetContext", found |-> existing,
                     result |-> IF r.context.id \in DOMAIN r.db THEN r.context.id ELSE NoRow,
                     before |-> db]
        /\ UNCHANGED <<now, h, nCalls, config, budget, slack>>

----------------------------------------------------------------------------
\* Sequential calls of handle() on one thread, with every kind of message,
\* classifier reply and collaborator failure

RouteMessages == Messages \cup MoreMessages

\* replies of the model whose braces do not parse, whose entities include an
\* unknown kind and an empty value, and whose confidence is a number above 1
RouteLlmReplies ==
  LlmReplies
  \cup {[kind |-> "badjson"],
        [kind |-> "json", agent |-> "hubspot", confidence |-> 90,
         entities |-> <<[type |-> "person", value |-> "Maria", resolved_id |-> Unresolved, resolved_name |-> "undefined"],
                        [type |-> "contact", value |-> "", resolved_id |-> Unresolved, resolved_name |-> "undefined"],
                        [type |-> "deal", value |-> "Acme", resolved_id |-> Unresolved, resolved_name |-> "undefined"]>>],
        [kind |-> "json", agent |-> "hubspot", confidence |-> 150, entities |-> <<>>],
        [kind |-> "json", agent |-> "hubspot", confidence |-> 90,
         entities |-> <<[type |-> "contact", value |-> "his", resolved_id |-> Unresolved, resolved_name |-> "undefined"],
                        [type |-> "contact", value |-> "her", resolved_id |-> Unresolved, resolved_name |-> "undefined"],
                        [type |-> "contact", value |-> "Maria", resolved_id |-> 2, resolved_name |-> "Maria Lopez"]>>]}

\* createAuthError('HubSpot'), which the HubSpot client throws on a 401
AuthError ==
  [kind |-> "AgentError", message |-> <<"HubSpot", "authentication", "failed">>,
   userMessage |-> "My HubSpot connection broke - need to re-auth"]

RouteAgentReplies ==
  AgentReplies
  \cup {[kind |-> "throws", error |-> AuthError],
        [kind |-> "throws", error |-> [kind |-> "Error", message |-> <<"status", "401">>]],
        [kind |-> "ok", message |-> "r1",
         entities |-> <<[type |-> "company", id |-> 2, name |-> "n", mentionedAt |-> now]>>]}

InitRoute ==
  InitWith(HandleConfig, [rows |-> MaxRows, turns |-> 0, entities |-> 0, total |-> 0])

NextRoute ==
  \/ \E m \in RouteMessages : HandleStart("p1", m, "C1", "T1", "U1")
  \/ \E reply \in RouteLlmReplies : HandleClassify("p1", reply)
  \/ \E reply \in RouteAgentReplies : HandleDispatch("p1", reply)

SpecRoute == InitRoute /\ [][NextRoute]_vars

----------------------------------------------------------------------------
\* Properties of handle()'s error path

Errored == last.op = "handle" /\ last.outcome = "errored"

\* the texts getUserFriendlyError holds for exceptions that are no AgentError
FixedErrorMessages ==
  {"Couldn't connect to the service - try again in a minute?",
   "Authentication failed - credentials may need updating.",
   "Too many requests - please wait a moment.",
   "API key is missing or invalid - please check configuration.",
   "Something went wrong - please try again."}

ThrownErrors == {reply.error : reply \in {r \in RouteAgentReplies : r.kind = "throws"}}

----------------------------------------------------------------------------
\* Orchestrator.getContext called from outside, between lookups by the
\* message handler, the passing of time and the cleanup sweep

InitIntrospect ==
  InitWith(StoreConfig, [rows |-> MaxRows, turns |-> 0, entities |-> 0, total |-> 0])

NextIntrospect ==
  \/ Tick
  \/ Cleanup
  \/ \E c \in Channels, th \in Threads, u \in Users : GetContext(c, th, u)
  \/ \E c \in Channels, th \in Threads : OrchGetContext(c, th)

SpecIntrospect == InitIntrospect /\ [][NextIntrospect]_vars

----------------------------------------------------------------------------
\* Properties of Orchestrator.getContext

\* C12: Orchestrator.getContext creates no context row, changes no field of an
\* existing row, and returns null when the pair has no context.
C12_GetContextIsReadOnly ==
  last.op = "orchGetContext" =>
    /\ db = last.before
    /\ last.found = NoRow => last.result = NoRow

----------------------------------------------------------------------------
\* Properties of classification inside handle()

FailedGeneration == {"throws", "text", "badjson"}

\* C13: when the text-generation call of classify() throws, or its output
\* holds no parsable brace-delimited object, classify() raises nothing and
\* returns capability general, confidence 0.3 (below the clarification
\* threshold) and no entities, so the call ends on the clarification path.
C13_FallbackOnFailedGeneration ==
  (last.op \in {"handle", "classified"} /\ last.llm \in FailedGeneration) =>
    /\ last.op = "handle"
    /\ last.outcome = "clarified"
    /\ last.agent = "general"
    /\ last.confidence = FallbackConfidence
    /\ last.confidence < ConfidenceThreshold
    /\ last.entities = <<>>

C13_Witness ==
  /\ last.op = "handle"
  /\ last.outcome = "clarified"
  /\ last.llm = "badjson"
  /\ last.confidence = FallbackConfidence

----------------------------------------------------------------------------
\* Properties of resolvePronoun

Pronouns == {"they", "them", "their", "he", "him", "his", "she", "her", "hers", "it", "its"}

\* the entity of the kind that was passed to addEntityReference last, Null if
\* there was none
MostRecentOfKind(entities, kind) ==
  LET ofKind == SelectSeq(entities, LAMBDA e : e.type = kind)
  IN  IF ofKind = <<>> THEN Null ELSE ofKind[Len(ofKind)]

FirstOf(a, b) == IF a /= Null THEN a ELSE b

\* C14: on a context whose entities were each added once, resolvePronoun
\* returns the most recent contact, else the most recent company, for
\* they/them/their; the most recent contact for he/him/his/she/her/hers; the
\* most recent deal, else the most recent company, for it/its; and null when
\* there is no entity of those kinds.
C14_PronounResolvesToMostRecent ==
  \A id \in DOMAIN db, pronoun \in Pronouns :
    DistinctIds(log[id].entities) =>
      LET contact == MostRecentOfKind(log[id].entities, "contact")
          deal == MostRecentOfKind(log[id].entities, "deal")
          company == MostRecentOfKind(log[id].entities, "company")
      IN  ResolvePronoun(db, id, pronoun) =
            (IF pronoun \in {"they", "them", "their"} THEN FirstOf(contact, company)
             ELSE IF pronoun \in {"it", "its"} THEN FirstOf(deal, company)
             ELSE contact)

\* a quick-pattern rule of some group matches the message
QuickRule(message) == message.content \/ message.hubspot \/ message.general

Clarified == last.op = "handle" /\ last.outcome = "clarified"

\* C15: a message that matches a quick-pattern rule is classified with the
\* capability of the first matching group in the order content, CRM, general,
\* at confidence 0.95 and without a text-generation request, whether or not
\* the context has an active capability; it never takes the clarification
\* path.
C15_QuickRuleDecidesFirst ==
  /\ \A p \in Procs :
       (h[p].pc = "dispatch" /\ QuickRule(h[p].message)) =>
         /\ h[p].classification.agent =
              (IF h[p].message.content THEN "content"
               ELSE IF h[p].message.hubspot THEN "hubspot" ELSE "general")
         /\ h[p].classification.confidence = QuickConfidence
         /\ h[p].llmRequests = 0
         /\ h[p].llm = "none"
  /\ Clarified => ~QuickRule(last.userMessage)

C15_Witness ==
  /\ h["p1"].pc = "dispatch"
  /\ h["p1"].activeAgent = "content"
  /\ h["p1"].message.hubspot /\ h["p1"].message.general /\ IsFollowUp(h["p1"].message)
  /\ h["p1"].classification.agent = "hubspot"
  /\ h["p1"].llmRequests = 0

----------------------------------------------------------------------------
\* Calls that name a context that does not exist

StoreMutations == {"addTurn", "setActiveAgent", "addEntity"}

\* C16: addTurn, setActiveAgent and addEntity with the identifier of a context
\* that does not exist (never created, or removed by cleanup) create no row
\* and leave every row as it was; getById and getRecentEntity return null for
\* such an identifier.
C16_MissingContextIsNoOp ==
  /\ [](\A id \in CallIds \ DOMAIN db :
          /\ GetById(db, id) = Null
          /\ \A type \in {"contact", "deal", "company"} : GetRecentEntity(db, id, type) = Null)
  /\ [][(last'.op \in StoreMutations /\ last'.contextId \notin DOMAIN db)
          => (db' = db /\ nextId' = nextId)]_vars

C16_Witness ==
  /\ last.op = "addTurn"
  /\ last.contextId \notin DOMAIN db
  /\ last.contextId <= nextId
  /\ DOMAIN db /= {}

\* C17: when no quick rule matches and the context has an active capability, a
\* message that is short or holds a continuation marker is classified as a
\* continuation of the active capability at confidence 0.85 without a
\* text-generation request.
C17_ShortOrMarkerContinues ==
  LET ContinuationExpected(message, activeAgent) ==
        /\ ~QuickRule(message)
        /\ activeAgent /= NoAgent
        /\ (message.short \/ message.indicator)
  IN  /\ \A p \in Procs :
           (h[p].pc = "dispatch" /\ ContinuationExpected(h[p].message, h[p].activeAgent)) =>
             /\ h[p].classification.agent = h[p].activeAgent
             /\ h[p].classification.confidence = FollowUpConfidence
             /\ h[p].llmRequests = 0
      /\ Clarified => ~ContinuationExpected(last.userMessage, last.activeAgent)

----------------------------------------------------------------------------
\* Overlapping calls of handle() on one thread.  A call runs without
\* interruption up to its next await (the store is synchronous), and an
\* awaited classification or collaborator call settles eventually, which is
\* what the fairness conditions state.

InitConcurrent ==
  InitWith(HandleConfig, [rows |-> MaxRows, turns |-> 0, entities |-> 0, total |-> 0])

NextConcurrent ==
  \/ \E p \in Procs, m \in Messages : HandleStart(p, m, "C1", "T1", "U1")
  \/ \E p \in Procs, reply \in LlmReplies : HandleClassify(p, reply)
  \/ \E p \in Procs, reply \in AgentReplies : HandleDispatch(p, reply)

SpecConcurrent ==
  /\ InitConcurrent
  /\ [][NextConcurrent]_vars
  /\ WF_vars(\E p \in Procs, reply \in LlmReplies : HandleClassify(p, reply))
  /\ WF_vars(\E p \in Procs, reply \in AgentReplies : HandleDispatch(p, reply))

\* the stored history of the context lacks a turn that a call recorded,
\* although no more turns were recorded than the cap allows
TurnLost(id) ==
  /\ Len(log[id].turns) <= config.historyLength
  /\ db[id].history /= log[id].turns

----------------------------------------------------------------------------
\* The clarification path of handle()

----------------------------------------------------------------------------
\* The user turn of a call that fails

\* C20: the user turn is appended before classification starts, so when the
\* call fails afterwards the stored history of its context still holds that
\* user turn.
C20_UserTurnSurvivesFailure ==
  Errored =>
    /\ last.contextId \in DOMAIN db
    /\ \E i \in 1..Len(db[last.contextId].history) :
         /\ db[last.contextId].history[i].role = "user"
         /\ db[last.contextId].history[i].content = last.userMessage.text

----------------------------------------------------------------------------
\* The success path of handle()

Dispatched == last.op = "handle" /\ last.outcome = "dispatched"

----------------------------------------------------------------------------
\* What classification hands to the confidence gate and to dispatch

\* ExtractedEntity.type
EntityKinds == {"contact", "deal", "company", "task", "date", "amount"}

\* C22: every entity in a result of classify() has a recognized kind and a
\* non-empty value.
C22_EntitiesHaveKnownKindAndValue ==
  \A p \in Procs :
    h[p].pc = "dispatch" =>
      \A i \in 1..Len(h[p].classification.entities) :
        /\ h[p].classification.entities[i].type \in EntityKinds
        /\ h[p].classification.entities[i].value /= ""

\* C23: every classification result that reaches the confidence gate has a
\* confidence between 0 and 1 (0..100 in hundredths).
C23_ConfidenceInUnitInterval ==
  /\ \A p \in Procs :
       h[p].pc = "dispatch" => h[p].classification.confidence \in 0..100
  /\ Clarified => last.confidence \in 0..100

\* C24: before dispatch every extracted entity went through the resolver: an
\* entity that carries a resolved identifier is untouched, an unresolved
\* entity whose value is one of they/them/their, he/him/his/she/her/hers,
\* it/its has the identifier and name of the entity resolvePronoun chooses
\* when there is one, and any other entity is passed through as it was.
C24_PronounEntitiesResolved ==
  \A p \in Procs :
    h[p].pc = "dispatch" =>
      /\ Len(h[p].entities) = Len(h[p].classification.entities)
      /\ \A i \in 1..Len(h[p].entities) :
           LET entity == h[p].classification.entities[i]
               chosen == ResolvePronoun(db, h[p].contextId, entity.value)
           IN  h[p].entities[i] =
                 (IF entity.resolved_id = Unresolved /\ entity.value \in Pronouns
                      /\ chosen /= Null
                  THEN [entity EXCEPT !.resolved_id = chosen.id, !.resolved_name = chosen.name]
                  ELSE entity)

----------------------------------------------------------------------------
\* Which entity counts as the recent one

\* the last addEntity found its entity's identifier in the list of the kind
\* at a position that is not the last one, and replaced that entry
ReAddedNotLast(id, kind) ==
  /\ last.op = "addEntity"
  /\ last.contextId = id
  /\ last.entity.type = kind
  /\ \E j \in 1..(Len(db[id].entities[ListOfKind(kind)]) - 1) :
       db[id].entities[ListOfKind(kind)][j] = last.entity

----------------------------------------------------------------------------
\* The collaborators handle() reaches

----------------------------------------------------------------------------
\* No retry inside handle()

\* C27: within one call of handle() classification is asked once and the
\* collaborator is invoked once: the step that gets the classifier's answer
\* always leaves the classification stage, to the clarification response when
\* the generation failed; every invocation of a collaborator ends the call
\* that made it, with the apology when it threw; so a context never counts
\* more invocations than completed calls.
C27_NoRetryInsideHandle ==
  /\ [](\A id \in DOMAIN log : log[id].agentCalls <= log[id].completed)
  /\ [][\A p \in Procs :
          /\ (h[p].pc = "classify" /\ h'[p] /= h[p]) =>
               /\ h'[p].pc \in {"idle", "dispatch"}
               /\ log'[h[p].contextId].agentCalls = log[h[p].contextId].agentCalls
               /\ last'.llm \in FailedGeneration =>
                    (h'[p].pc = "idle" /\ last'.outcome = "clarified" /\ last'.llmRequests = 1)
          /\ (h[p].pc = "dispatch" /\ log'[h[p].contextId] /= log[h[p].contextId]) =>
               /\ h'[p].pc = "idle"
               /\ log'[h[p].contextId].agentCalls = log[h[p].contextId].agentCalls + 1
               /\ log'[h[p].contextId].completed = log[h[p].contextId].completed + 1
               /\ h[p].llmRequests \in {0, 1}]_vars

C27_Witness ==
  /\ Errored
  /\ last.llmRequests = 1
  /\ log[last.contextId].agentCalls = 1
  /\ log[last.contextId].completed = 1

----------------------------------------------------------------------------
\* Lookups on a channel without thread identifier around an expiry: room for
\* the row that expires, the row that replaces it and one more

InitReplace ==
  InitWith(StoreConfig, [rows |-> MaxRows + 1, turns |-> MixedStores, entities |-> 0,
                         total |-> MixedStores])

NextReplace ==
  \/ Tick
  \/ \E c \in Channels, u \in Users : GetContext(c, NoThread, u)
  \/ \E id \in CallIds : AddUserMessage(id, "m1")
  \/ Cleanup

SpecReplace == InitReplace /\ [][NextReplace]_vars

\* C28: a lookup on a channel without thread identifier returns the context
\* that replaced the expired one as long as that context has not expired: it
\* does not create another context next to it.
C28_ReplacementIsReused ==
  (last.op = "getContext" /\ db[last.result].slackThreadTs = NoThread) =>
    \A n \in DOMAIN db :
      (/\ db[n].slackChannelId = db[last.result].slackChannelId
       /\ db[n].slackThreadTs = NoThread
       /\ ~IsExpired(db[n], now))
      => n = last.result

----------------------------------------------------------------------------
\* The kind of the entities in a list

\* C29: every entity stored in the contacts, deals or companies list of a
\* context has the kind of that list, so getRecentEntity and resolvePronoun
\* return no entity of another kind.
C29_ListsHoldTheirKind ==
  \A id \in DOMAIN db, kind \in {"contact", "deal", "company"} :
    /\ \A i \in 1..Len(db[id].entities[ListOfKind(kind)]) :
         db[id].entities[ListOfKind(kind)][i].type = kind
    /\ GetRecentEntity(db, id, kind) /= Null => GetRecentEntity(db, id, kind).type = kind
    /\ ResolvePronoun(db, id, "her") /= Null => ResolvePronoun(db, id, "her").type = "contact"

----------------------------------------------------------------------------
\* SlackMessageHandler: @mentions, replies in channel threads, and the calls
\* of handle() that processMessage makes for the messages it was given

SlackThreads == {"T1", "T2"}

\* buildThreadKey, for a thread timestamp that is set: the channel id and the
\* timestamp joined by a colon, which neither of them contains
BuildThreadKey(channelId, threadTs) == <<channelId, threadTs>>

\* handleMention: the thread becomes active and the text goes to processMessage
HandleMention(channelId, threadTs) ==
  /\ slack' = [activeThreads |-> slack.activeThreads \cup {BuildThreadKey(channelId, threadTs)},
               processing |-> slack.processing \cup {BuildThreadKey(channelId, threadTs)}]
  /\ last' = [op |-> "handleMention", channelId |-> channelId, threadTs |-> threadTs]
  /\ UNCHANGED <<now, db, nextId, log, h, nCalls, config, budget>>

\* handleMessage for a message of a channel (not a direct message) that has a
\* thread_ts: hasPersistedContext is evaluated whether or not the thread is
\* active in memory, and it goes through Orchestrator.getContext
HandleMessage(channelId, threadTs) ==
  \E existing \in FindResult(db, channelId, threadTs) :
    LET r == GetOrCreateOn(db, existing, channelId, threadTs, "unknown", nextId + 1, now, config)
        key == BuildThreadKey(channelId, threadTs)
        isActiveInMemory == key \in slack.activeThreads
        hasDbContext == /\ r.context.id \in DOMAIN r.db
                        /\ Len(r.db[r.context.id].history) > 0
        processed == isActiveInMemory \/ hasDbContext
    IN  /\ r.created => nextId < budget.rows
        /\ db' = r.db
        /\ nextId' = IF r.created THEN nextId + 1 ELSE nextId
        /\ log' = IF r.created THEN (r.context.id :> NewLog(channelId, threadTs)) @@ log ELSE log
        /\ slack' = IF processed
                      THEN [activeThreads |-> slack.activeThreads \cup {key},
                            processing |-> slack.processing \cup {key}]
                      ELSE slack
        /\ last' = [op |-> "handleMessage", channelId |-> channelId, threadTs |-> threadTs,
                     isActiveInMemory |-> isActiveInMemory, hasDbContext |-> hasDbContext,
                     processed |-> processed, before |-> db]
        /\ UNCHANGED <<now, h, nCalls, config, budget>>

\* clearThread: the thread is no longer active in memory
ClearThread(channelId, threadTs) ==
  /\ BuildThreadKey(channelId, threadTs) \in slack.activeThreads
  /\ slack' = [slack EXCEPT !.activeThreads = @ \ {BuildThreadKey(channelId, threadTs)}]
  /\ last' = [op |-> "clearThread", channelId |-> channelId, threadTs |-> threadTs]
  /\ UNCHANGED <<now, db, nextId, log, h, nCalls, config, budget>>

\* processMessage: orchestrator.handle for a message it was given
ProcessMessage(p, message, channelId, threadTs, userId) ==
  /\ BuildThreadKey(channelId, threadTs) \in slack.processing
  /\ HandleStart(p, message, channelId, threadTs, userId)

InitSlack ==
  InitWith(HandleConfig, [rows |-> MaxRows, turns |-> 0, entities |-> 0, total |-> 0])

NextSlack ==
  \/ \E c \in Channels, th \in SlackThreads : HandleMention(c, th)
  \/ \E c \in Channels, th \in SlackThreads : HandleMessage(c, th)
  \/ \E c \in Channels, th \in SlackThreads : ClearThread(c, th)
  \/ \E c \in Channels, th \in SlackThreads, u \in Users :
       ProcessMessage("p1", Message("quarterly summary", FALSE, FALSE, FALSE, TRUE, FALSE), c, th, u)
  \/ \E reply \in LlmReplies : HandleClassify("p1", reply)
  \/ \E reply \in AgentReplies : HandleDispatch("p1", reply)

SpecSlack == InitSlack /\ [][NextSlack]_vars

\* C30: a reply in a channel thread that no @mention started and that has no
\* persisted context is ignored without side effects: it is not passed on to
\* handle(), and the table of contexts is what it was before the message
C30_IgnoredReplyHasNoEffect ==
  (/\ last.op = "handleMessage"
   /\ ~last.isActiveInMemory
   /\ Matches(last.before, last.channelId, last.threadTs) = {})
  => (~last.processed /\ db = last.before)

====
